---- MODULE Spec2Model ----
(***************************************************************************)
(* Model of CTWPFRecommender (src/src/recommender.py): ontology load,      *)
(* profile building, CTWP scoring with the expansion cache, the relevance  *)
(* evaluation and the ranking of run_analysis.                             *)
(*                                                                         *)
(* Representation.                                                         *)
(*  - A Python str is a sequence of one-character strings; Hangul          *)
(*    syllables are written romanised, one syllable per element, so that   *)
(*    Len is Python's len, and " " and "," are the blank and the comma.    *)
(*  - A Python dict is a sequence of <<key, value>> pairs in insertion     *)
(*    order (sorted() is stable, so the order decides ties).               *)
(*  - Profile weights are counted in halves (2 is 1.0, 1 is 0.5), course   *)
(*    keyword weights in tenths (10 is 1.0), and every score in units of   *)
(*    1/400 (1500 is 3.75, 16000 is 40).  Arithmetic is exact.             *)
(***************************************************************************)
EXTENDS Integers, Sequences, FiniteSets, TLC

VARIABLES
    pc,               \* position of the process: construction, then run_analysis
    nodes_file,       \* "ontology.xlsx - Nodes.csv": whether it exists, and its rows
    edges_file,       \* "ontology.xlsx - Edges.csv": whether it exists, and its rows
    G,                \* the local graph _load_ontology_data is filling
    row,              \* index of the next row _load_ontology_data reads
    graph,            \* self.graph: Unset during construction, then None or a graph
    client,           \* self.client is set (TRUE) or None (FALSE)
    target_courses,   \* self.target_courses
    student,          \* the arguments of run_analysis
    student_profile,  \* run_analysis: student_profile
    keyword_cache,    \* self.keyword_cache
    calls,            \* per term: the underlying generate_content calls of expand, by outcome
    hits,             \* per term: the requests answered from keyword_cache
    ci,               \* run_analysis: index of the course being scored
    terms,            \* calculate_ctwp_score: sorted_student_terms
    ei,               \* calculate_ctwp_score: index into sorted_student_terms
    ct_score,         \* calculate_ctwp_score: ct_score
    wp_score,         \* calculate_ctwp_score: wp_score
    matches,          \* calculate_ctwp_score: matches
    requested,        \* the (term, returned list) pairs of this course's expand requests
    last_eval,        \* the last underlying response of evaluate and what evaluate returned
    recommendations,  \* run_analysis: recommendations
    result            \* run_analysis: "running", "raised", or "returned" with the rows of df

vars == <<pc, nodes_file, edges_file, G, row, graph, client, target_courses, student,
          student_profile, keyword_cache, calls, hits, ci, terms, ei, ct_score, wp_score,
          matches, requested, last_eval, recommendations, result>>

-----------------------------------------------------------------------------
(* Python values *)

\* self.graph is None: a value of the same shape as a graph, so that the two compare
None == [kind |-> "None", nodes |-> <<>>, edges |-> <<>>]

\* self.graph before __init__ has assigned it
Unset == [kind |-> "Unset", nodes |-> <<>>, edges |-> <<>>]

\* str.replace(" ", "")
StripSpaces(s) == SelectSeq(s, LAMBDA c : c # " ")

\* str.strip(): leading and trailing blanks removed
RECURSIVE LStrip(_)
LStrip(s) == IF s # <<>> /\ Head(s) = " " THEN LStrip(Tail(s)) ELSE s

RECURSIVE RStrip(_)
RStrip(s) == IF s # <<>> /\ s[Len(s)] = " " THEN RStrip(SubSeq(s, 1, Len(s) - 1)) ELSE s

Strip(s) == RStrip(LStrip(s))

\* the Python test `sub in s` on two strings
Contains(sub, s) ==
    \E i \in 0..(Len(s) - Len(sub)) : SubSeq(s, i + 1, i + Len(sub)) = sub

\* str.split(','): the pieces between the commas
RECURSIVE Split(_)
Split(s) ==
    IF \A i \in 1..Len(s) : s[i] # ","
    THEN <<s>>
    ELSE LET k == CHOOSE i \in 1..Len(s) : s[i] = "," /\ \A j \in 1..(i - 1) : s[j] # ","
         IN  <<SubSeq(s, 1, k - 1)>> \o Split(SubSeq(s, k + 1, Len(s)))

\* dict: keys(), `k in d`, d.get(k, default), d[k] = v
Keys(d) == {d[i][1] : i \in 1..Len(d)}

Has(d, k) == k \in Keys(d)

Get(d, k, default) ==
    IF Has(d, k) THEN d[CHOOSE i \in 1..Len(d) : d[i][1] = k][2] ELSE default

Put(d, k, v) ==
    IF Has(d, k)
    THEN [i \in 1..Len(d) |-> IF d[i][1] = k THEN <<k, v>> ELSE d[i]]
    ELSE Append(d, <<k, v>>)

SeqToSet(s) == {s[i] : i \in 1..Len(s)}

-----------------------------------------------------------------------------
(* self.STOPWORDS *)

STOPWORDS ==
    { <<"gang", "ui">>, <<"su", "eop">>, <<"hak", "jeom">>, <<"gyo", "su">>,
      <<"si", "heom">>, <<"gwa", "je">>, <<"pyeong", "ga">>, <<"chul", "seok">>,
      <<"jung", "gan", "go", "sa">>, <<"gi", "mal", "go", "sa">>, <<"i", "hae">>,
      <<"gae", "yo">>, <<"mok", "pyo">>, <<"bang", "beop">>, <<"bun", "seok">>,
      <<"hwal", "yong">>, <<"i", "ron">>, <<"sil", "seup">>, <<"so", "gae">>,
      <<"gi", "cho">>, <<"eung", "yong">>, <<"jin", "haeng">>, <<"gwan", "ryeon">>,
      <<"hak", "nyeon">>, <<"jeon", "gong">>, <<"pil", "su">>, <<"seon", "taek">>,
      <<"hak", "saeng">>, <<"sa", "yong", "ja">>, <<"mit">>, <<"ui">>, <<"deung">>,
      <<"dae", "ha", "yeo">> }

\* the "none" choice of the double-major select box
EOPEUM == <<"eop", "eum">>

-----------------------------------------------------------------------------
(* _load_ontology_data: the graph (nx.DiGraph) and its construction *)

\* G = nx.DiGraph()
EmptyGraph == [kind |-> "DiGraph", nodes |-> <<>>, edges |-> <<>>]

NodeIds(g) == {g.nodes[i].id : i \in 1..Len(g.nodes)}

\* G.add_node(node_id, label=label): a known id keeps its place and takes the new label
add_node(g, node_id, label) ==
    IF node_id \in NodeIds(g)
    THEN [g EXCEPT !.nodes = [i \in 1..Len(g.nodes) |->
                                 IF g.nodes[i].id = node_id
                                 THEN [id |-> node_id, label |-> label]
                                 ELSE g.nodes[i]]]
    ELSE [g EXCEPT !.nodes = Append(g.nodes, [id |-> node_id, label |-> label])]

\* a node add_edge creates has no label attribute: data.get('label', '') is ''
ImplicitNode(g, node_id) ==
    IF node_id \in NodeIds(g) THEN g ELSE add_node(g, node_id, <<>>)

\* G.add_edge(src, dst): unknown endpoints are created, a known edge keeps its place
add_edge(g, src, dst) ==
    LET g2 == ImplicitNode(ImplicitNode(g, src), dst)
    IN  IF <<src, dst>> \in SeqToSet(g2.edges)
        THEN g2
        ELSE [g2 EXCEPT !.edges = Append(g2.edges, <<src, dst>>)]

\* a faulty variant of OnLoadException: the rows read so far are returned
OnLoadExceptionPartial(g) == g

\* except Exception: return None
OnLoadException(g) == None

\* the label attribute of a node id
LabelOf(g, node_id) ==
    g.nodes[CHOOSE i \in 1..Len(g.nodes) : g.nodes[i].id = node_id].label

\* list(self.graph.successors(n)), in edge insertion order
successors(g, n) ==
    LET es == SelectSeq(g.edges, LAMBDA e : e[1] = n)
    IN  [i \in 1..Len(es) |-> es[i][2]]

\* list(self.graph.predecessors(n)), in edge insertion order
predecessors(g, n) ==
    LET es == SelectSeq(g.edges, LAMBDA e : e[2] = n)
    IN  [i \in 1..Len(es) |-> es[i][1]]

-----------------------------------------------------------------------------
(* get_keywords_from_input *)

\* a faulty variant of input_items: the "none" choice is not left out
input_items_with_none(major, double_major, history_courses) ==
    <<major>> \o (IF double_major # <<>> THEN <<double_major>> ELSE <<>>)
              \o history_courses

\* input_items: major, the double major unless empty or "none", the history
input_items(major, double_major, history_courses) ==
    <<major>> \o (IF double_major # <<>> /\ double_major # EOPEUM
                  THEN <<double_major>> ELSE <<>>)
              \o history_courses

\* a faulty variant of IsTargetNode: the seed is compared as typed
IsTargetNodeRawItem(item, label) == Contains(item, StripSpaces(label))

\* item.replace(" ", "") in label.replace(" ", "")
IsTargetNode(item, label) == Contains(StripSpaces(item), StripSpaces(label))

\* target_nodes of one item, in node order
target_nodes(g, item) ==
    LET ns == SelectSeq(g.nodes, LAMBDA n : IsTargetNode(item, n.label))
    IN  [i \in 1..Len(ns) |-> ns[i].id]

\* neighbors of one root node
neighbors(g, root_node) == successors(g, root_node) \o predecessors(g, root_node)

\* the loop over neighbors: each labelled non-stopword neighbour gains 0.5
RECURSIVE AddNeighbors(_, _, _)
AddNeighbors(g, keywords, ns) ==
    IF ns = <<>> THEN keywords
    ELSE LET neighbor_label == LabelOf(g, Head(ns))
             next == IF neighbor_label # <<>> /\ neighbor_label \notin STOPWORDS
                     THEN Put(keywords, neighbor_label, Get(keywords, neighbor_label, 0) + 1)
                     ELSE keywords
         IN  AddNeighbors(g, next, Tail(ns))

\* the loop over target_nodes
RECURSIVE AddRoots(_, _, _)
AddRoots(g, keywords, roots) ==
    IF roots = <<>> THEN keywords
    ELSE AddRoots(g, AddNeighbors(g, keywords, neighbors(g, Head(roots))), Tail(roots))

\* the loop over input_items with a graph
RECURSIVE ExpandItems(_, _, _)
ExpandItems(g, keywords, items) ==
    IF items = <<>> THEN keywords
    ELSE ExpandItems(g, AddRoots(g, Put(keywords, Head(items), 2), target_nodes(g, Head(items))),
                     Tail(items))

\* the loop over input_items without a graph
RECURSIVE SeedItems(_, _)
SeedItems(keywords, items) ==
    IF items = <<>> THEN keywords
    ELSE SeedItems(Put(keywords, Head(items), 2), Tail(items))

\* get_keywords_from_input; None and "" as interest are both the empty string here
get_keywords_from_input(g, major, double_major, history_courses, interest) ==
    LET items == input_items(major, double_major, history_courses)
        keywords == IF interest # <<>> THEN <<<<interest, 2>>>> ELSE <<>>
    IN  IF g = None THEN SeedItems(keywords, items)
        ELSE ExpandItems(g, keywords, items)

-----------------------------------------------------------------------------
(* expand_keyword_with_gemini *)

\* a faulty variant of get_idf_weight: len(word) >= 2
get_idf_weight_ge(word) == IF Len(word) >= 2 THEN 3 ELSE 2

\* get_idf_weight, in halves: 1.5 if len(word) > 2 else 1.0
get_idf_weight(word) == IF Len(word) > 2 THEN 3 ELSE 2

\* a faulty variant of InCache: the cache is never consulted
InCacheNever(cache, keyword) == FALSE

\* keyword in self.keyword_cache
InCache(cache, keyword) == Has(cache, keyword)

\* [word.strip() for word in response.text.split(',')]
related_words(text) == LET ws == Split(text) IN [i \in 1..Len(ws) |-> Strip(ws[i])]

\* expand_keyword_with_gemini(keyword) when generate_content answers `response`
\* (kind "raise": it raises; kind "text": response.text, empty for None or '').
\* call: whether generate_content was invoked; hit: whether the cache answered.
expand_keyword_with_gemini(cl, cache, keyword, response) ==
    IF ~cl
    THEN [ret |-> <<>>, cache |-> cache, call |-> "no", hit |-> FALSE]
    ELSE IF InCache(cache, keyword)
    THEN [ret |-> Get(cache, keyword, <<>>), cache |-> cache, call |-> "no", hit |-> TRUE]
    ELSE IF keyword \in STOPWORDS
    THEN [ret |-> <<>>, cache |-> cache, call |-> "no", hit |-> FALSE]
    ELSE IF response.kind = "raise"
    THEN [ret |-> <<>>, cache |-> cache, call |-> "raise", hit |-> FALSE]
    ELSE IF response.text = <<>>
    THEN [ret |-> <<>>, cache |-> cache, call |-> "empty", hit |-> FALSE]
    ELSE [ret |-> related_words(response.text),
          cache |-> Put(cache, keyword, related_words(response.text)),
          call |-> "text", hit |-> FALSE]

-----------------------------------------------------------------------------
(* evaluate_relevance_with_gemini *)

\* a JSON number n as a score, in units of 1/400
Num(n) == [t |-> "num", v |-> n]

\* a JSON string or null as a score
NotNum == [t |-> "str", v |-> 0]

API_ERROR == <<"API", " ", "o", "ryu">>
AI_FAILED == <<"AI", " ", "bun", "seok", " ", "sil", "pae">>
NO_REASON == <<"bun", "seok", " ", "bul", "ga">>

\* evaluate_relevance_with_gemini when generate_content answers `response`:
\* kind "raise" (it raises), "notjson" (json.loads raises), "list" (JSON that is no
\* object: .get raises AttributeError), "object" (a JSON object, whose score and
\* reason members may be missing)
evaluate_relevance_with_gemini(cl, response) ==
    IF ~cl THEN [score |-> Num(0), reason |-> API_ERROR]
    ELSE IF response.kind \in {"raise", "notjson", "list"}
    THEN [score |-> Num(0), reason |-> AI_FAILED]
    ELSE [score |-> IF response.has_score THEN response.score ELSE Num(0),
          reason |-> IF response.has_reason THEN response.reason ELSE NO_REASON]

-----------------------------------------------------------------------------
(* calculate_ctwp_score *)

\* a faulty variant of filtered_ct: the stopwords stay among the common terms
filtered_ct_with_stopwords(student_dict, course_keywords) ==
    Keys(student_dict) \cap Keys(course_keywords)

\* set(student_dict.keys()).intersection(set(course_keywords.keys())) - self.STOPWORDS
filtered_ct(student_dict, course_keywords) ==
    (Keys(student_dict) \cap Keys(course_keywords)) \ STOPWORDS

\* the orders in which `for term in filtered_ct` may visit a set
Orders(S) == {o \in [1..Cardinality(S) -> S] : \A x \in S : \E i \in DOMAIN o : o[i] = x}

\* the first loop: ct_score accumulated over the visiting order o, in units of 1/400
RECURSIVE CtLoop(_, _, _)
CtLoop(student_dict, course_keywords, o) ==
    IF o = <<>> THEN 0
    ELSE CtLoop(student_dict, course_keywords, SubSeq(o, 1, Len(o) - 1))
         + 10 * Get(student_dict, o[Len(o)], 2) * Get(course_keywords, o[Len(o)], 10)
              * get_idf_weight(o[Len(o)])

\* sorted(..., key=lambda x: x[1], reverse=True): stable, equal weights keep their order
RECURSIVE SortedByWeight(_)
SortedByWeight(items) ==
    IF items = <<>> THEN <<>>
    ELSE LET rest == SortedByWeight(SubSeq(items, 1, Len(items) - 1))
             x == items[Len(items)]
             k == Cardinality({i \in 1..Len(rest) : rest[i][2] >= x[2]})
         IN  SubSeq(rest, 1, k) \o <<x>> \o SubSeq(rest, k + 1, Len(rest))

\* s[:n]
Take(s, n) == SubSeq(s, 1, IF Len(s) < n THEN Len(s) ELSE n)

\* the number of profile terms expanded
TopTerms == 5

\* a faulty variant of sorted_student_terms: the stopwords leave before the cut
sorted_student_terms_nonstop(student_dict) ==
    Take(SortedByWeight(SelectSeq(student_dict, LAMBDA x : x[1] \notin STOPWORDS)), TopTerms)

\* sorted_student_terms = sorted(student_dict.items(), ...)[:5]
sorted_student_terms(student_dict) == Take(SortedByWeight(student_dict), TopTerms)

\* f"{e_term}(<-{s_term})"
Annotated(e_term, s_term) == e_term \o <<"(<-">> \o s_term \o <<")">>

\* the loop `for e_term in expanded` of one s_term: [wp |-> wp_score, m |-> matches]
RECURSIVE WpLoop(_, _, _, _, _)
WpLoop(acc, course_keywords, s_term, s_weight, expanded) ==
    IF expanded = <<>> THEN acc
    ELSE LET e_term == Head(expanded)
             next == IF Has(course_keywords, e_term)
                        /\ ~(e_term \in STOPWORDS \/ e_term \in acc.m)
                     THEN [wp |-> acc.wp + 16 * s_weight * Get(course_keywords, e_term, 10),
                           m |-> acc.m \cup {Annotated(e_term, s_term)}]
                     ELSE acc
         IN  WpLoop(next, course_keywords, s_term, s_weight, Tail(expanded))

\* final_score = (0.5 * ct_score) + (0.5 * wp_score); return final_score * 5.0
final_score(ct, wp) == ((ct \div 2) + (wp \div 2)) * 5

-----------------------------------------------------------------------------
(* run_analysis: the table of recommendations *)

\* .astype(int) of a quotient a / b with b > 0: the fraction is cut off, toward zero
AsTypeInt(a, b) == IF a >= 0 THEN a \div b ELSE -((-a) \div b)

\* the percent column: (total / max_score) * 95 as int if max_score > 0, else 0
suitability(total, max_score) ==
    IF max_score > 0 THEN AsTypeInt(total * 95, max_score) ELSE 0

\* df["total"].max()
MaxTotal(recs) ==
    CHOOSE m \in {recs[i].total : i \in 1..Len(recs)} :
        \A i \in 1..Len(recs) : recs[i].total <= m

\* df.sort_values(by=total, ascending=False); rows of equal total keep their order
\* (numpy sorts the short arrays of this corpus by insertion)
RECURSIVE sort_values(_)
sort_values(recs) ==
    IF recs = <<>> THEN <<>>
    ELSE LET rest == sort_values(SubSeq(recs, 1, Len(recs) - 1))
             x == recs[Len(recs)]
             k == Cardinality({i \in 1..Len(rest) : rest[i].total >= x.total})
         IN  SubSeq(rest, 1, k) \o <<x>> \o SubSeq(rest, k + 1, Len(rest))

\* the number of rows run_analysis returns at most
TopN == 5

\* .head(5)
head(recs) == Take(recs, TopN)

\* the percent column added to every row
WithPercent(recs) ==
    [i \in 1..Len(recs) |->
        [idx |-> recs[i].idx, total |-> recs[i].total, ctwp |-> recs[i].ctwp,
         ai |-> recs[i].ai, reason |-> recs[i].reason, matches |-> recs[i].matches,
         percent |-> suitability(recs[i].total, MaxTotal(recs))]]

\* lines 246-256: df of the recommendations, percent column, sort, head
RankedTable(recs) == IF recs = <<>> THEN <<>> ELSE head(sort_values(WithPercent(recs)))

-----------------------------------------------------------------------------
(* The inputs the model is run on *)

GYEONGYEONGHAKGWA == <<"gyeong", "yeong", "hak", "gwa">>
SAHAKGWA == <<"sa", "hak", "gwa">>
MAKETING == <<"ma", "ke", "ting">>
BUNSEOK == <<"bun", "seok">>
AI == <<"A", "I">>
DEITEO == <<"de", "i", "teo">>
DEITEO_BUNSEOK == <<"de", "i", "teo", " ", "bun", "seok">>
JEONRYAK == <<"gyeong", "yeong", " ", "jeon", "ryak">>
REASON == <<"r">>

\* rows of the two ontology files; ok = FALSE is a row whose reading raises
NodeRow(id, label) == [ok |-> TRUE, id |-> id, label |-> label, dst |-> <<>>]
EdgeRow(src, dst) == [ok |-> TRUE, id |-> src, label |-> <<>>, dst |-> dst]
BadRow == [ok |-> FALSE, id |-> <<>>, label |-> <<>>, dst |-> <<>>]

File(rows) == [exists |-> TRUE, rows |-> rows]
Missing == [exists |-> FALSE, rows |-> <<>>]

NodesA ==
    << NodeRow(<<"n1">>, GYEONGYEONGHAKGWA), NodeRow(<<" ", "n2">>, MAKETING),
       NodeRow(<<"n3">>, BUNSEOK), NodeRow(<<"n4">>, <<" ">> \o DEITEO_BUNSEOK),
       NodeRow(<<"n5">>, AI), NodeRow(<<"n6">>, JEONRYAK) >>

EdgesA ==
    << EdgeRow(<<"n1">>, <<"n2">>), EdgeRow(<<"n1">>, <<"n3">>),
       EdgeRow(<<"n1">>, <<"n4", " ">>), EdgeRow(<<"n4">>, <<"n1">>),
       EdgeRow(<<"n2">>, <<"n5">>), EdgeRow(<<"n1">>, <<"n9">>),
       EdgeRow(<<"n6">>, <<"n2">>), EdgeRow(<<"n1">>, <<"n2">>) >>

\* the whole of _load_ontology_data on two files that exist and whose rows all read
RECURSIVE LoadNodes(_, _)
LoadNodes(g, rows) ==
    IF rows = <<>> THEN g
    ELSE LoadNodes(add_node(g, Strip(Head(rows).id), Strip(Head(rows).label)), Tail(rows))

RECURSIVE LoadEdges(_, _)
LoadEdges(g, rows) ==
    IF rows = <<>> THEN g
    ELSE LoadEdges(add_edge(g, Strip(Head(rows).id), Strip(Head(rows).dst)), Tail(rows))

GraphA == LoadEdges(LoadNodes(EmptyGraph, NodesA), EdgesA)

\* the course records of courses.json: course_name and keywords
CourseKinds ==
    << [course_name |-> <<"c1">>, keywords |-> <<<<MAKETING, 10>>, <<AI, 8>>, <<BUNSEOK, 5>>>>],
       [course_name |-> <<"c2">>, keywords |-> <<<<GYEONGYEONGHAKGWA, 5>>, <<DEITEO, 7>>>>],
       [course_name |-> <<"c3">>, keywords |-> <<>>] >>

\* the largest corpus
MaxCourses == 6

Corpus(n) == [i \in 1..n |-> CourseKinds[((i - 1) % Len(CourseKinds)) + 1]]

Student(major, double_major, history, interest) ==
    [major |-> major, double_major |-> double_major, history |-> history,
     interest |-> interest]

Students ==
    { Student(m, d, h, i) :
        m \in {GYEONGYEONGHAKGWA, SAHAKGWA},
        d \in {EOPEUM, MAKETING},
        h \in {<<>>, <<DEITEO_BUNSEOK>>, <<AI, DEITEO_BUNSEOK>>},
        i \in {<<>>, BUNSEOK, MAKETING} }

\* what generate_content may answer to the prompt of expand_keyword_with_gemini
TextA == <<"A", "I", ",", " ">> \o MAKETING \o <<" ", ",">> \o BUNSEOK \o <<",", "A", "I">>
TextB == DEITEO

ExpandResponses ==
    { [kind |-> "raise", text |-> <<>>], [kind |-> "text", text |-> <<>>],
      [kind |-> "text", text |-> TextA], [kind |-> "text", text |-> TextB] }

\* what generate_content may answer to the prompt of evaluate_relevance_with_gemini
EvalResponse(kind, has_score, score, has_reason) ==
    [kind |-> kind, has_score |-> has_score, score |-> score,
     has_reason |-> has_reason, reason |-> REASON]

EvalResponses ==
    { EvalResponse("raise", FALSE, Num(0), FALSE),
      EvalResponse("notjson", FALSE, Num(0), FALSE),
      EvalResponse("list", FALSE, Num(0), FALSE),
      EvalResponse("object", FALSE, Num(0), TRUE),
      EvalResponse("object", TRUE, Num(16000), FALSE),
      EvalResponse("object", TRUE, Num(-4000), TRUE),
      EvalResponse("object", TRUE, Num(24000), TRUE),
      EvalResponse("object", TRUE, Num(5000), TRUE),
      EvalResponse("object", TRUE, NotNum, TRUE) }

-----------------------------------------------------------------------------
(* __init__: _load_ontology_data, step by step *)

\* the longest ontology file
MaxRows == 2

NodeRows == { NodeRow(<<"n1">>, MAKETING), NodeRow(<<" ", "n2">>, <<" ">> \o AI),
              NodeRow(<<"n1">>, BUNSEOK), BadRow }

EdgeRows == { EdgeRow(<<"n1">>, <<"n2">>), EdgeRow(<<"n2", " ">>, <<"n1">>),
              EdgeRow(<<"n1">>, <<"n7">>), BadRow }

SeqsUpTo(S, n) == UNION {[1..k -> S] : k \in 0..n}

NoEval == [response |-> EvalResponse("none", FALSE, Num(0), FALSE),
           ret |-> [score |-> Num(0), reason |-> <<>>]]

Running == [state |-> "running", rows |-> <<>>]

\* what is the same in every initial state: nothing has run yet
Fresh ==
    /\ G = EmptyGraph
    /\ row = 0
    /\ student_profile = <<>>
    /\ keyword_cache = <<>>
    /\ calls = <<>>
    /\ hits = <<>>
    /\ ci = 0
    /\ terms = <<>>
    /\ ei = 0
    /\ ct_score = 0
    /\ wp_score = 0
    /\ matches = {}
    /\ requested = <<>>
    /\ last_eval = NoEval
    /\ recommendations = <<>>
    /\ result = Running

\* the process at the start of __init__, for the files it may find
InitLoad ==
    /\ pc = "load"
    /\ nodes_file \in {Missing} \cup {File(r) : r \in SeqsUpTo(NodeRows, MaxRows)}
    /\ edges_file \in {Missing} \cup {File(r) : r \in SeqsUpTo(EdgeRows, MaxRows)}
    /\ graph = Unset
    /\ client = FALSE
    /\ target_courses = <<>>
    /\ student = Student(MAKETING, EOPEUM, <<>>, <<>>)
    /\ Fresh

run_vars == <<client, target_courses, student, student_profile, keyword_cache, calls, hits,
              ci, terms, ei, ct_score, wp_score, matches, requested, last_eval,
              recommendations, result>>

\* lines 42-43: a file is missing, return None; else the files are read
LoadStart ==
    /\ pc = "load"
    /\ IF ~nodes_file.exists \/ ~edges_file.exists
       THEN graph' = None /\ pc' = "constructed" /\ UNCHANGED <<G, row>>
       ELSE G' = EmptyGraph /\ row' = 1 /\ pc' = "nodes" /\ UNCHANGED graph
    /\ UNCHANGED <<nodes_file, edges_file>>
    /\ UNCHANGED run_vars

\* lines 48-51: one row of the nodes file; a row that raises ends the load (59-60)
LoadNodeRow ==
    /\ pc = "nodes"
    /\ row <= Len(nodes_file.rows)
    /\ LET r == nodes_file.rows[row]
       IN  IF r.ok
           THEN /\ G' = add_node(G, Strip(r.id), Strip(r.label))
                /\ row' = row + 1
                /\ UNCHANGED <<pc, graph>>
           ELSE /\ graph' = OnLoadException(G)
                /\ pc' = "constructed"
                /\ UNCHANGED <<G, row>>
    /\ UNCHANGED <<nodes_file, edges_file>>
    /\ UNCHANGED run_vars

\* the nodes loop is over: the edges loop starts
LoadNodesDone ==
    /\ pc = "nodes"
    /\ row > Len(nodes_file.rows)
    /\ pc' = "edges"
    /\ row' = 1
    /\ UNCHANGED <<G, graph, nodes_file, edges_file>>
    /\ UNCHANGED run_vars

\* lines 53-57: one row of the edges file; a row that raises ends the load (59-60)
LoadEdgeRow ==
    /\ pc = "edges"
    /\ row <= Len(edges_file.rows)
    /\ LET r == edges_file.rows[row]
       IN  IF r.ok
           THEN /\ G' = add_edge(G, Strip(r.id), Strip(r.dst))
                /\ row' = row + 1
                /\ UNCHANGED <<pc, graph>>
           ELSE /\ graph' = OnLoadException(G)
                /\ pc' = "constructed"
                /\ UNCHANGED <<G, row>>
    /\ UNCHANGED <<nodes_file, edges_file>>
    /\ UNCHANGED run_vars

\* line 58 and line 33: return G; self.graph = the graph
LoadReturn ==
    /\ pc = "edges"
    /\ row > Len(edges_file.rows)
    /\ graph' = G
    /\ pc' = "constructed"
    /\ UNCHANGED <<G, row, nodes_file, edges_file>>
    /\ UNCHANGED run_vars

-----------------------------------------------------------------------------
(* run_analysis *)

load_vars == <<nodes_file, edges_file, G, row, graph>>

\* line 209: student_profile = self.get_keywords_from_input(...)
Build ==
    /\ pc = "constructed"
    /\ student_profile' = get_keywords_from_input(graph, student.major, student.double_major,
                                                  student.history, student.interest)
    /\ ci' = 1
    /\ pc' = IF target_courses = <<>> THEN "rank" ELSE "ct"
    /\ UNCHANGED <<client, target_courses, student, keyword_cache, calls, hits, terms, ei,
                   ct_score, wp_score, matches, requested, last_eval, recommendations,
                   result>>
    /\ UNCHANGED load_vars

\* lines 178-191 for course ci: the CT loop, visiting filtered_ct in some order
CtStep ==
    /\ pc = "ct"
    /\ LET course_keywords == target_courses[ci].keywords
           ct == filtered_ct(student_profile, course_keywords)
       IN  /\ \E o \in Orders(ct) : ct_score' = CtLoop(student_profile, course_keywords, o)
           /\ matches' = ct
    /\ wp_score' = 0
    /\ terms' = sorted_student_terms(student_profile)
    /\ ei' = 1
    /\ requested' = <<>>
    /\ last_eval' = NoEval
    /\ pc' = "wp"
    /\ UNCHANGED <<client, target_courses, student, student_profile, keyword_cache, calls,
                   hits, ci, recommendations, result>>
    /\ UNCHANGED load_vars

\* line 194: a stopword among sorted_student_terms is passed over
WpSkip ==
    /\ pc = "wp"
    /\ ei <= Len(terms)
    /\ terms[ei][1] \in STOPWORDS
    /\ ei' = ei + 1
    /\ UNCHANGED <<pc, client, target_courses, student, student_profile, keyword_cache,
                   calls, hits, ci, terms, ct_score, wp_score, matches, requested, last_eval,
                   recommendations, result>>
    /\ UNCHANGED load_vars

\* lines 195-201: one s_term is expanded and its expanded terms are matched
WpExpand ==
    /\ pc = "wp"
    /\ ei <= Len(terms)
    /\ terms[ei][1] \notin STOPWORDS
    /\ \E response \in ExpandResponses :
         LET s_term == terms[ei][1]
             s_weight == terms[ei][2]
             e == expand_keyword_with_gemini(client, keyword_cache, s_term, response)
             acc == WpLoop([wp |-> wp_score, m |-> matches],
                           target_courses[ci].keywords, s_term, s_weight, e.ret)
         IN  /\ keyword_cache' = e.cache
             /\ calls' = IF e.call = "no" THEN calls
                         ELSE Put(calls, s_term, Get(calls, s_term, 0) + 1)
             /\ hits' = IF e.hit THEN Put(hits, s_term, Get(hits, s_term, 0) + 1) ELSE hits
             /\ wp_score' = acc.wp
             /\ matches' = acc.m
             /\ requested' = Append(requested, <<s_term, e.ret>>)
    /\ ei' = ei + 1
    /\ UNCHANGED <<pc, client, target_courses, student, student_profile, ci, terms, ct_score,
                   last_eval, recommendations, result>>
    /\ UNCHANGED load_vars

\* lines 203-204 and 230-244: the score is returned, the course is evaluated, the
\* scores are added (which raises TypeError when ai_score is no number) and the
\* record is appended
Evaluate ==
    /\ pc = "wp"
    /\ ei > Len(terms)
    /\ \E response \in EvalResponses :
         LET ret == evaluate_relevance_with_gemini(client, response)
             ctwp == final_score(ct_score, wp_score)
         IN  /\ last_eval' = [response |-> response, ret |-> ret]
             /\ IF ret.score.t = "num"
                THEN /\ recommendations' = Append(recommendations,
                            [idx |-> ci, total |-> ctwp + ret.score.v, ctwp |-> ctwp,
                             ai |-> ret.score.v, reason |-> ret.reason, matches |-> matches])
                     /\ ci' = ci + 1
                     /\ pc' = IF ci = Len(target_courses) THEN "rank" ELSE "ct"
                     /\ UNCHANGED result
                ELSE /\ result' = [state |-> "raised", rows |-> <<>>]
                     /\ pc' = "done"
                     /\ UNCHANGED <<recommendations, ci>>
    /\ terms' = <<>>
    /\ ei' = 0
    /\ ct_score' = 0
    /\ wp_score' = 0
    /\ matches' = {}
    /\ requested' = <<>>
    /\ UNCHANGED <<client, target_courses, student, student_profile, keyword_cache, calls,
                   hits>>
    /\ UNCHANGED load_vars

\* lines 246-258: the table is ranked and returned
Rank ==
    /\ pc = "rank"
    /\ result' = [state |-> "returned", rows |-> RankedTable(recommendations)]
    /\ last_eval' = NoEval
    /\ pc' = "done"
    /\ UNCHANGED <<client, target_courses, student, student_profile, keyword_cache, calls,
                   hits, ci, terms, ei, ct_score, wp_score, matches, requested,
                   recommendations>>
    /\ UNCHANGED load_vars

-----------------------------------------------------------------------------
(* The specifications *)

\* the recommender after __init__, about to run run_analysis once
Constructed(g, cl, corpus, st) ==
    /\ pc = "constructed"
    /\ nodes_file = (IF g = None THEN Missing ELSE File(NodesA))
    /\ edges_file = (IF g = None THEN Missing ELSE File(EdgesA))
    /\ graph = g
    /\ client = cl
    /\ target_courses = corpus
    /\ student = st
    /\ Fresh

\* every student against small corpora, without a client
InitProfiles ==
    \E st \in Students, g \in {None, GraphA}, n \in 0..2 :
        Constructed(g, FALSE, Corpus(n), st)

\* students against small corpora, with a client that answers in every way
InitCollaborator ==
    \E st \in { Student(GYEONGYEONGHAKGWA, EOPEUM, <<>>, <<>>),
                Student(SAHAKGWA, MAKETING, <<>>, BUNSEOK),
                Student(GYEONGYEONGHAKGWA, MAKETING, <<DEITEO_BUNSEOK>>, BUNSEOK) },
       g \in {None, GraphA}, n \in 1..2 :
        Constructed(g, TRUE, Corpus(n), st)

\* corpora up to one longer than the table returned, without a client
InitCorpus ==
    \E st \in { Student(SAHAKGWA, EOPEUM, <<>>, MAKETING),
                Student(GYEONGYEONGHAKGWA, MAKETING, <<AI>>, <<>>) },
       g \in {None, GraphA}, n \in 3..MaxCourses :
        Constructed(g, FALSE, Corpus(n), st)

Init == InitProfiles \/ InitCollaborator \/ InitCorpus

Next == Build \/ CtStep \/ WpSkip \/ WpExpand \/ Evaluate \/ Rank

Spec == Init /\ [][Next]_vars

NextLoad == LoadStart \/ LoadNodeRow \/ LoadNodesDone \/ LoadEdgeRow \/ LoadReturn \/ Build

SpecLoad == InitLoad /\ [][NextLoad]_vars

-----------------------------------------------------------------------------
(* Properties *)

\* the sum of the values v of a finite set of pairs <<what, v>>
RECURSIVE SumPairs(_)
SumPairs(S) ==
    IF S = {} THEN 0
    ELSE LET x == CHOOSE y \in S : TRUE IN x[2] + SumPairs(S \ {x})

Min(a, b) == IF a < b THEN a ELSE b

\* floor(a / b) for b > 0
Floor(a, b) == a \div b

Returned == result.state = "returned"

\* calculate_ctwp_score has run its two loops for course ci and is about to return
Scored == pc = "wp" /\ ei > Len(terms)

\* C1: the list run_analysis returns has at most 5 rows, its totals never increase
\* from one rank to the next, and every percent is an integer in 0..95 that never
\* increases from one rank to the next.
C1_RunOutput ==
    Returned =>
        /\ Len(result.rows) <= 5
        /\ \A i \in 1..Len(result.rows) :
              /\ result.rows[i].percent \in 0..95
              /\ i > 1 => /\ result.rows[i - 1].total >= result.rows[i].total
                          /\ result.rows[i - 1].percent >= result.rows[i].percent

\* C2 as claimed: over the whole process the underlying collaborator is invoked at
\* most once per distinct term, whatever the earlier call returned.
C2_AtMostOneCallPerTerm == \A t \in Keys(calls) : Get(calls, t, 0) <= 1

\* C2 as amended: once a call for a term has returned related terms the term is in
\* the cache, and from then on no step invokes the collaborator for it again, its
\* cache entry stays, and a request for it is answered with the cached list; only
\* terms whose calls all failed or came back empty are called again.
C2_CachedTermNeverCalledAgain ==
    [][/\ \A t \in Keys(keyword_cache) :
            /\ Get(calls', t, 0) = Get(calls, t, 0)
            /\ Has(keyword_cache', t)
            /\ Get(keyword_cache', t, <<>>) = Get(keyword_cache, t, <<>>)
            /\ (Len(requested') > Len(requested) /\ requested'[Len(requested')][1] = t)
                  => /\ requested'[Len(requested')][2] = Get(keyword_cache, t, <<>>)
                     /\ Get(hits', t, 0) = Get(hits, t, 0) + 1
       /\ \A t \in Keys(calls') :
            Get(calls', t, 0) > Get(calls, t, 0)
               => /\ ~Has(keyword_cache, t)
                  /\ Get(calls', t, 0) = Get(calls, t, 0) + 1]_vars

\* C2, reached: one term was answered from the cache and another was called twice
C2_Witness ==
    /\ \E t \in Keys(hits) : Get(hits, t, 0) >= 1 /\ Get(calls, t, 0) = 1
    /\ \E t \in Keys(calls) : Get(calls, t, 0) >= 2

\* C3: without a graph the profile's keys are exactly the major, the double major
\* unless it is the "none" choice, the history courses and the interest if given,
\* each at weight 1.0.
C3_AbsentGraphProfile ==
    (graph = None /\ pc # "constructed") =>
        /\ Keys(student_profile) =
              {student.major}
              \cup (IF student.double_major = EOPEUM THEN {} ELSE {student.double_major})
              \cup SeqToSet(student.history)
              \cup (IF student.interest = <<>> THEN {} ELSE {student.interest})
        /\ \A i \in 1..Len(student_profile) : student_profile[i][2] = 2
        /\ \A i, j \in 1..Len(student_profile) :
              student_profile[i][1] = student_profile[j][1] => i = j

\* C3, reached: a profile built without a graph from a "none" double major, a
\* history and an interest
C3_Witness ==
    /\ graph = None
    /\ pc # "constructed"
    /\ student.double_major = EOPEUM
    /\ student.history # <<>>
    /\ student.interest # <<>>
    /\ Len(student_profile) = 2 + Len(student.history)

\* the weight a mapping gives a key it holds
W(d, k) == Get(d, k, 0)

\* C4's ctScore: the sum over (keys(profile) /\ keys(courseKeywords)) minus the
\* stopwords of profile[term] * courseKeywords[term] * idf(term), idf being 1.5 for
\* a term longer than 2 characters and 1.0 otherwise; in units of 1/400
ClaimedCt(profile, course_keywords) ==
    SumPairs({ <<t, 10 * W(profile, t) * W(course_keywords, t)
                       * (IF Len(t) > 2 THEN 3 ELSE 2)>> :
               t \in (Keys(profile) \cap Keys(course_keywords)) \ STOPWORDS })

\* C4: whatever the order in which the common terms are visited, ct_score is the
\* claimed sum, wp_score is 0 while no expanded term has matched, and the score
\* handed to run_analysis is (0.5 * ctScore + 0.5 * wpScore) * 5.0.
C4_FinalScore ==
    [][/\ (pc = "wp" /\ matches \subseteq Keys(student_profile)) => wp_score = 0
       /\ pc' = "wp" =>
             ct_score' = ClaimedCt(student_profile', target_courses'[ci'].keywords)
       /\ Len(recommendations') > Len(recommendations) =>
             /\ ct_score = ClaimedCt(student_profile, target_courses[ci].keywords)
             /\ 2 * recommendations'[Len(recommendations')].ctwp
                   = 5 * (ct_score + wp_score)]_vars

\* C4, reached: profile term "maketing" at 1.0 against course keyword "maketing" at
\* 1.0 with no expansion match has scored 3.75
C4_Witness ==
    \E i \in 1..Len(recommendations) :
        /\ recommendations[i].matches = {MAKETING}
        /\ W(student_profile, MAKETING) = 2
        /\ W(target_courses[i].keywords, MAKETING) = 10
        /\ recommendations[i].ctwp = 1500

\* C5: with maxTotal the largest total of all courses, every row's percent is
\* floor(total / maxTotal * 95) if maxTotal > 0 and 0 otherwise, and never above 95.
C5_PercentIsFloor ==
    (Returned /\ recommendations # <<>>) =>
        \A i \in 1..Len(result.rows) :
            /\ result.rows[i].percent =
                  (IF MaxTotal(recommendations) > 0
                   THEN Floor(result.rows[i].total * 95, MaxTotal(recommendations))
                   ELSE 0)
            /\ result.rows[i].percent <= 95

\* the underlying call of evaluate failed: no client, an exception, text that is no
\* JSON, or JSON that is no object or whose score is missing, no integer or not in 0..50
EvalFailure(cl, response) ==
    \/ ~cl
    \/ response.kind \in {"raise", "notjson", "list"}
    \/ ~response.has_score
    \/ response.score.t # "num"
    \/ response.score.v % 400 # 0
    \/ response.score.v \notin 0..20000

\* C6: evaluate returns an integer score in 0..50, and score 0 whenever the
\* underlying call failed, with a failure reason when there was no object to read.
C6_EvaluateDegrades ==
    last_eval.response.kind # "none" =>
        /\ last_eval.ret.score.t = "num"
        /\ last_eval.ret.score.v % 400 = 0
        /\ last_eval.ret.score.v \in 0..20000
        /\ EvalFailure(client, last_eval.response) => last_eval.ret.score.v = 0
        /\ (~client \/ last_eval.response.kind # "object") =>
              last_eval.ret.reason \in {API_ERROR, AI_FAILED}

\* C7: run_analysis completes whatever the collaborator answers; every course has
\* been scored once, in corpus order; min(5, number of courses) rows of distinct
\* courses are returned with the profile; a course without matched keywords has
\* total = aiScore; an empty corpus gives an empty list.
C7_RunNeverAborts ==
    pc = "done" =>
        /\ Returned
        /\ Len(recommendations) = Len(target_courses)
        /\ \A i \in 1..Len(recommendations) :
              /\ recommendations[i].idx = i
              /\ recommendations[i].matches = {} =>
                    recommendations[i].total = recommendations[i].ai
        /\ Len(result.rows) = Min(5, Len(target_courses))
        /\ \A i, j \in 1..Len(result.rows) :
              result.rows[i].idx = result.rows[j].idx => i = j
        /\ student_profile = get_keywords_from_input(graph, student.major,
                                 student.double_major, student.history, student.interest)

\* a row of either ontology file cannot be read, or a file is missing
SourcesUnreadable ==
    \/ ~nodes_file.exists
    \/ ~edges_file.exists
    \/ \E i \in 1..Len(nodes_file.rows) : ~nodes_file.rows[i].ok
    \/ \E i \in 1..Len(edges_file.rows) : ~edges_file.rows[i].ok

\* every node and every edge of the two files is in self.graph
HoldsAllRows ==
    /\ graph.kind = "DiGraph"
    /\ \A i \in 1..Len(nodes_file.rows) : Strip(nodes_file.rows[i].id) \in NodeIds(graph)
    /\ \A i \in 1..Len(edges_file.rows) :
          <<Strip(edges_file.rows[i].id), Strip(edges_file.rows[i].dst)>>
             \in SeqToSet(graph.edges)

\* C8: once set, self.graph is None if a file is missing or any row cannot be read,
\* and otherwise holds every node and edge of the files: never a part of them; and
\* it is never changed after the load.
C8_LoadIsAtomic ==
    /\ [](graph # Unset => IF SourcesUnreadable THEN graph = None ELSE HoldsAllRows)
    /\ [][graph # Unset => graph' = graph]_vars

\* C8, reached: a load that had read rows into G when a later row raised, and the
\* profile built after it
C8_Witness ==
    /\ graph = None
    /\ G.nodes # <<>>
    /\ student_profile # <<>>

\* the profile terms ahead of term k in the descending order of weights, ties in
\* the order of the profile
Ahead(profile, k) ==
    {j \in 1..Len(profile) :
        profile[j][2] > profile[k][2] \/ (profile[j][2] = profile[k][2] /\ j < k)}

\* the terms for which this course's scoring has asked an expansion
RequestedTerms == {requested[i][1] : i \in 1..Len(requested)}

\* the wpScore of C9: profile[s] * 0.8 * courseKeywords[e] for every expanded term e
\* of a seed s that is a course keyword, no stopword and no CT match
ClaimedWp ==
    LET kw == target_courses[ci].keywords
        ct == (Keys(student_profile) \cap Keys(kw)) \ STOPWORDS
        at == UNION { {<<i, j>> : j \in 1..Len(requested[i][2])} : i \in 1..Len(requested) }
    IN  SumPairs({ <<x, 16 * W(student_profile, requested[x[1]][1])
                           * W(kw, requested[x[1]][2][x[2]])>> :
                   x \in { y \in at :
                             requested[y[1]][2][y[2]] \in (Keys(kw) \ STOPWORDS) \ ct } })

\* C9 as claimed: the terms expanded are the 5 highest-weight profile terms that
\* are no stopwords (all of them when fewer than 5 exist).
C9_FiveNonStopwordsExpanded ==
    Scored =>
        LET nonstop == Keys(student_profile) \ STOPWORDS
        IN  /\ RequestedTerms \subseteq nonstop
            /\ Cardinality(RequestedTerms) = Min(5, Cardinality(nonstop))
            /\ \A a \in RequestedTerms, b \in nonstop \ RequestedTerms :
                  W(student_profile, a) >= W(student_profile, b)

\* C9 as amended: the terms expanded are the non-stopwords among the 5 highest-weight
\* profile terms, stopwords counted among the 5 (ties in profile order), each asked
\* once; and wpScore is the claimed sum over their expanded terms.
C9_TopFiveThenStopwords ==
    Scored =>
        /\ RequestedTerms =
              { student_profile[k][1] : k \in
                  { k \in 1..Len(student_profile) :
                      /\ Cardinality(Ahead(student_profile, k)) < 5
                      /\ student_profile[k][1] \notin STOPWORDS } }
        /\ Len(requested) = Cardinality(RequestedTerms)
        /\ wp_score = ClaimedWp

\* C9, reached: a profile of more than 5 terms with a stopword among its first 5,
\* scored with an expansion match
C9_Witness ==
    /\ Scored
    /\ Len(student_profile) > 5
    /\ \E k \in 1..Len(terms) : terms[k][1] \in STOPWORDS
    /\ wp_score > 0

\* the seed terms in the order build processes them
Seeds ==
    <<student.major>>
    \o (IF student.double_major = EOPEUM THEN <<>> ELSE <<student.double_major>>)
    \o student.history

\* the (seed, matched node, neighbour) occurrences, for a way of matching a seed
\* with a label: seed index, node index, direction and edge index
Occurrences(Matches(_, _)) ==
    { o \in (1..Len(Seeds)) \X (1..Len(graph.nodes)) \X {"succ", "pred"}
            \X (1..Len(graph.edges)) :
        /\ Matches(Seeds[o[1]], graph.nodes[o[2]].label)
        /\ graph.edges[o[4]][IF o[3] = "succ" THEN 1 ELSE 2] = graph.nodes[o[2]].id }

\* the label of the neighbour of an occurrence
NeighbourLabel(o) == LabelOf(graph, graph.edges[o[4]][IF o[3] = "succ" THEN 2 ELSE 1])

\* the profile C10 describes, for a way of matching: its keys and their weights
ProfileIsAsDescribed(Matches(_, _)) ==
    LET occ == { o \in Occurrences(Matches) :
                   NeighbourLabel(o) # <<>> /\ NeighbourLabel(o) \notin STOPWORDS }
        last(k) == IF k \in SeqToSet(Seeds)
                   THEN CHOOSE i \in 1..Len(Seeds) :
                          Seeds[i] = k /\ \A j \in (i + 1)..Len(Seeds) : Seeds[j] # k
                   ELSE 0
        base(k) == IF k \in SeqToSet(Seeds) \/ (student.interest # <<>> /\ k = student.interest)
                   THEN 2 ELSE 0
    IN  /\ Keys(student_profile) =
              SeqToSet(Seeds)
              \cup (IF student.interest = <<>> THEN {} ELSE {student.interest})
              \cup {NeighbourLabel(o) : o \in occ}
        /\ \A k \in Keys(student_profile) :
              W(student_profile, k) =
                 base(k) + Cardinality({o \in occ : NeighbourLabel(o) = k /\ o[1] >= last(k)})

\* get_keywords_from_input has just returned the profile built with a graph (no
\* later step assigns student_profile)
BuiltWithGraph == graph.kind = "DiGraph" /\ ci = 1 /\ pc \in {"ct", "rank"}

\* C10 as claimed: a node matches a seed when its label without blanks contains the
\* seed as typed.
C10_LabelContainsSeed ==
    BuiltWithGraph => ProfileIsAsDescribed(LAMBDA seed, label : Contains(seed, StripSpaces(label)))

\* C10 as amended: a node matches a seed when its label without blanks contains the
\* seed without blanks; each seed is set to 1.0, and every labelled non-stopword
\* neighbour gains 0.5 per (seed, matched node, neighbour) occurrence.
C10_StrippedLabelContainsStrippedSeed ==
    BuiltWithGraph =>
        ProfileIsAsDescribed(LAMBDA seed, label :
                               Contains(StripSpaces(seed), StripSpaces(label)))

\* C10, reached: a seed with a blank has matched a node, a seed has overwritten a
\* weight gathered before it, and a neighbour has gained through two occurrences
C10_Witness ==
    /\ BuiltWithGraph
    /\ DEITEO_BUNSEOK \in SeqToSet(Seeds)
    /\ MAKETING \in SeqToSet(Seeds)
    /\ W(student_profile, MAKETING) = 2
    /\ W(student_profile, GYEONGYEONGHAKGWA) = 5
    /\ BUNSEOK \notin Keys(student_profile) \ {student.interest}

\* a mapping with its stopword keys deleted
NoStop(d) == SelectSeq(d, LAMBDA x : x[1] \notin STOPWORDS)

\* a matched term is a WP match "e(<-s)" or a plain CT term
IsWpMatch(m) == m # <<>> /\ m[Len(m)] = ")" /\ \E i \in 1..Len(m) : m[i] = "(<-"

\* the expanded term e and the seed s of a WP match "e(<-s)"
ExpandedOf(m) == SubSeq(m, 1, (CHOOSE i \in 1..Len(m) : m[i] = "(<-") - 1)

SeedOf(m) == SubSeq(m, (CHOOSE i \in 1..Len(m) : m[i] = "(<-") + 1, Len(m) - 1)

\* the sum over every common key of two mappings of profile[t] * kw[t] * idf(t),
\* nothing left out; in units of 1/400
CtOver(profile, kw) ==
    SumPairs({ <<t, 10 * W(profile, t) * W(kw, t) * (IF Len(t) > 2 THEN 3 ELSE 2)>> :
               t \in Keys(profile) \cap Keys(kw) })

\* the sum over every expanded term e returned for a seed s, once per occurrence,
\* that is a key of kw and not in ct, of profile[s] * 0.8 * kw[e]; in units of 1/400
WpOver(profile, kw, req, ct) ==
    LET at == UNION { {<<i, j>> : j \in 1..Len(req[i][2])} : i \in 1..Len(req) }
    IN  SumPairs({ <<x, 16 * W(profile, req[x[1]][1]) * W(kw, req[x[1]][2][x[2]])>> :
                   x \in { y \in at : req[y[1]][2][y[2]] \in Keys(kw) \ ct } })

\* no stopword is a CT term, a seed or an expanded term of a set of matched terms,
\* and no WP match of the set has a CT term of the set as its expanded term
MatchesAreClean(ms) ==
    \A m \in ms :
        IF IsWpMatch(m)
        THEN /\ ExpandedOf(m) \notin STOPWORDS
             /\ SeedOf(m) \notin STOPWORDS
             /\ ExpandedOf(m) \notin ms
        ELSE m \notin STOPWORDS

\* C11: stopwords are excluded from all matching in score: ct_score and wp_score are
\* the sums obtained with every stopword deleted from the profile and from the course
\* keywords (so no stopword contributes, as a CT term, a seed or an expanded term),
\* no stopword appears in the matched terms, the collaborator is never asked or
\* invoked to expand a stopword, and a CT match never also contributes to wp_score.
C11_StopwordsExcluded ==
    /\ Keys(calls) \cap STOPWORDS = {}
    /\ Keys(keyword_cache) \cap STOPWORDS = {}
    /\ \A i \in 1..Len(recommendations) : MatchesAreClean(recommendations[i].matches)
    /\ pc = "wp" =>
          LET profile == NoStop(student_profile)
              kw == NoStop(target_courses[ci].keywords)
              ct == Keys(profile) \cap Keys(kw)
          IN  /\ RequestedTerms \cap STOPWORDS = {}
              /\ MatchesAreClean(matches)
              /\ {m \in matches : ~IsWpMatch(m)} = ct
              /\ ct_score = CtOver(profile, kw)
              /\ wp_score = WpOver(profile, kw, requested, ct)

\* C11, reached: a course scored whose keywords hold a stopword of the profile, with
\* a CT match, and an expansion that returned the stopword, the CT match and a term
\* that matched
C11_Witness ==
    /\ Scored
    /\ BUNSEOK \in Keys(student_profile) \cap Keys(target_courses[ci].keywords)
    /\ MAKETING \in matches
    /\ \E i \in 1..Len(requested) :
          /\ {BUNSEOK, MAKETING, AI} \subseteq SeqToSet(requested[i][2])
          /\ Annotated(AI, requested[i][1]) \in matches
    /\ \E k \in 1..Len(terms) : terms[k][1] \in STOPWORDS
    /\ ct_score > 0
    /\ wp_score > 0

====
